---- MODULE Spec2Model ----
(***************************************************************************)
(* sqlizer: the generate command (cmd/generate.go).                        *)
(*                                                                         *)
(* One invocation of generateCmd.Run is modelled as a sequential state     *)
(* machine: readTable (connect, database probe, table probe, column        *)
(* listing, deferred close), generateTypes (template, parseResults,        *)
(* format) and writeTypes (Mkdir, WriteFile, ReadFile, imports.Process,    *)
(* WriteFile).  The database server, the template engine and the file      *)
(* system are the environment: every call into them has a nondeterministic *)
(* outcome.  Names that are lower-cased by the code are sequences of       *)
(* one-character strings, so that strings.ToLower is computed.             *)
(***************************************************************************)
EXTENDS Naturals, Sequences, FiniteSets, TLC

VARIABLES
  pc,            \* position of generateCmd.Run
  flagTable,     \* cmd.Flag("table").Value.String()
  conn,          \* the *sqlx.DB of readTable: "none", "open", "closed"
  queries,       \* the db.Select calls issued so far, with the connection state
  rows,          \* readTable's []Columns result
  err,           \* the err variable of Run / of the function that returned
  callErr,       \* the error value of the most recent library call
  stderr,        \* the messages written to os.Stderr, in order
  parsed,        \* the ParsedColumns handed to tmpl.Execute
  fmtBytes,      \* generateTypes' result
  genFileBytes,  \* writeTypes: the bytes read back from the file
  formatted,     \* writeTypes: the result of imports.Process
  dirs,          \* file system: the directories that exist
  files,         \* file system: path -> contents
  dirs0,         \* the directories at the start of the run
  files0         \* the files at the start of the run

vars == <<pc, flagTable, conn, queries, rows, err, callErr, stderr, parsed,
          fmtBytes, genFileBytes, formatted, dirs, files, dirs0, files0>>

\* The largest number of rows a column listing returns, and the largest
\* ordinal position.
MaxRows == 2

Nil == "nil"

----------------------------------------------------------------------------
\* Strings that the code lower-cases.

LowerChar(ch) ==
  CASE ch = "U" -> "u"
    [] ch = "S" -> "s"
    [] OTHER -> ch

ToLower(s) == [i \in 1..Len(s) |-> LowerChar(s[i])]

\* tLower + ".go"
GoFile(tLower) == tLower \o <<".", "g", "o">>

\* path.Join(tLower, tLower+".go")
PathJoin(dir, file) == <<dir, file>>

\* The values of the table flag, and the TABLE_NAME values of the rows.
TableNames == {<<"U", "s">>, <<"u", "s">>}

DirNames == TableNames

Paths == {PathJoin(d, GoFile(d)) : d \in DirNames}

NoFile == "absent"

----------------------------------------------------------------------------
\* Column metadata and the type map.

MappedTypes ==
  {"varchar", "nvarchar", "char", "int", "float", "bit", "datetime", "binary"}

\* DATA_TYPE values: the mapped ones and two the map does not hold.
DataTypes == MappedTypes \cup {"xml", "decimal"}

\* The DATA_TYPE values of the rows a column listing of the pipeline returns.
ListedTypes == {"int", "xml"}

ColumnNames == <<"Id", "Name", "CreatedAt", "Email">>

Ordinals == 1..MaxRows

Columns(types) ==
  {[TableName |-> t, ColumnName |-> ColumnNames[o], OrdinalPosition |-> o,
    DataType |-> d] : t \in TableNames, o \in Ordinals, d \in types}

SeqsUpTo(S, n) == UNION {[1..k -> S] : k \in 0..n}

mssqlTypeMapMissingBinary ==
  [d \in MappedTypes \ {"binary"} |->
    CASE d \in {"varchar", "nvarchar", "char"} -> "string"
      [] d = "int" -> "int64"
      [] d = "float" -> "float64"
      [] d = "bit" -> "bool"
      [] d = "datetime" -> "time.Time"]

mssqlTypeMap ==
  [d \in MappedTypes |->
    CASE d = "varchar" -> "string"
      [] d = "nvarchar" -> "string"
      [] d = "char" -> "string"
      [] d = "int" -> "int64"
      [] d = "float" -> "float64"
      [] d = "bit" -> "bool"
      [] d = "datetime" -> "time.Time"
      [] d = "binary" -> "[]byte"]

\* Attribute{Name: col.ColumnName}, with Type set when the map holds DataType.
Attribute(col) ==
  [Name |-> col.ColumnName,
   Type |-> IF col.DataType \in DOMAIN mssqlTypeMap
            THEN mssqlTypeMap[col.DataType]
            ELSE ""]

\* ParsedColumns{}
EmptyParsed == [TableName |-> <<>>, Attributes |-> <<>>]

RECURSIVE parseLoop(_, _)
parseLoop(c, acc) ==
  IF c = <<>>
  THEN acc
  ELSE parseLoop(Tail(c),
                 [TableName |-> Head(c).TableName,
                  Attributes |-> Append(acc.Attributes, Attribute(Head(c)))])

parseResultsFirstTableName(c) ==
  [parseLoop(c, EmptyParsed) EXCEPT
     !.TableName = IF c = <<>> THEN <<>> ELSE Head(c).TableName]

parseResults(c) == parseLoop(c, EmptyParsed)

----------------------------------------------------------------------------
\* The initial state of one invocation.

InitDisk ==
  /\ dirs0 \in SUBSET DirNames
  /\ Cardinality(dirs0) <= 1
  /\ files0 \in [Paths -> {NoFile, "old"}]
  /\ \A p \in Paths : files0[p] # NoFile => p[1] \in dirs0
  /\ dirs = dirs0
  /\ files = files0

InitRun ==
  /\ flagTable \in TableNames
  /\ conn = "none"
  /\ queries = <<>>
  /\ err = Nil
  /\ callErr = Nil
  /\ stderr = <<>>
  /\ parsed = EmptyParsed
  /\ fmtBytes = NoFile
  /\ genFileBytes = NoFile
  /\ formatted = NoFile

Init ==
  /\ pc = "connect"
  /\ rows = <<>>
  /\ InitRun
  /\ InitDisk

----------------------------------------------------------------------------
\* readTable

disk == <<dirs, files, dirs0, files0>>
buffers == <<parsed, fmtBytes, genFileBytes, formatted>>

DbCloseSkipped == conn' = conn

\* defer db.Close()
DbClose == conn' = "closed"

\* readTable returns (nil, e) and Run prints the message and returns.
ReadTableFail(e) ==
  /\ DbClose
  /\ err' = e
  /\ stderr' = Append(stderr, "While parsing database table")
  /\ pc' = "done"

\* db.Select(...) on the connection; result is what the server answered:
\* "error", "0" or "1" for a probe, "rows" for the column listing.
Select(q, result) ==
  queries' = Append(queries, [query |-> q, conn |-> conn, result |-> result])

\* The answer of an existence probe that returned (exists, e).
ProbeResult(exists, e) == IF e # Nil THEN "error" ELSE IF exists THEN "1" ELSE "0"

\* sqlx.Connect
Connect ==
  /\ pc = "connect"
  /\ \E e \in {Nil, "connect"} :
       /\ callErr' = e
       /\ IF e # Nil
          THEN /\ err' = e
               /\ stderr' = stderr \o <<"While connecting to database server",
                                        "While parsing database table">>
               /\ pc' = "done"
               /\ UNCHANGED conn
          ELSE /\ conn' = "open"
               /\ pc' = "checkDatabaseExists"
               /\ UNCHANGED <<err, stderr>>
  /\ UNCHANGED <<flagTable, queries, rows, buffers, disk>>

AfterDatabaseCheckIgnoreMissing(dbExists, e) ==
  IF e # Nil
  THEN ReadTableFail(e)
  ELSE /\ pc' = "checkTableExists"
       /\ UNCHANGED <<conn, err, stderr>>

\* readTable after checkDatabaseExists returned (dbExists, e)
AfterDatabaseCheck(dbExists, e) ==
  IF e # Nil
  THEN ReadTableFail(e)
  ELSE IF ~dbExists
       THEN ReadTableFail("databaseG does not exist")
       ELSE /\ pc' = "checkTableExists"
            /\ UNCHANGED <<conn, err, stderr>>

CheckDatabaseExists ==
  /\ pc = "checkDatabaseExists"
  /\ \E e \in {Nil, "query"}, dbExists \in BOOLEAN :
       /\ e # Nil => ~dbExists
       /\ Select("DatabaseExists", ProbeResult(dbExists, e))
       /\ callErr' = e
       /\ AfterDatabaseCheck(dbExists, e)
  /\ UNCHANGED <<flagTable, rows, buffers, disk>>

AfterTableCheckIgnoreMissing(tableExists, e) ==
  IF e # Nil
  THEN ReadTableFail(e)
  ELSE /\ pc' = "selectColumns"
       /\ UNCHANGED <<conn, err, stderr>>

AfterTableCheckRetry(tableExists, e) ==
  IF e # Nil
  THEN /\ pc' = "checkTableExists"
       /\ UNCHANGED <<conn, err, stderr>>
  ELSE IF ~tableExists
       THEN ReadTableFail("table does not exist")
       ELSE /\ pc' = "selectColumns"
            /\ UNCHANGED <<conn, err, stderr>>

\* readTable after checkTableExists returned (tableExists, e)
AfterTableCheck(tableExists, e) ==
  IF e # Nil
  THEN ReadTableFail(e)
  ELSE IF ~tableExists
       THEN ReadTableFail("table does not exist")
       ELSE /\ pc' = "selectColumns"
            /\ UNCHANGED <<conn, err, stderr>>

CheckTableExists ==
  /\ pc = "checkTableExists"
  /\ \E e \in {Nil, "query"}, tableExists \in BOOLEAN :
       /\ e # Nil => ~tableExists
       /\ Select("TableExists", ProbeResult(tableExists, e))
       /\ callErr' = e
       /\ AfterTableCheck(tableExists, e)
  /\ UNCHANGED <<flagTable, rows, buffers, disk>>

\* The results of SELECT * FROM <db>.INFORMATION_SCHEMA.COLUMNS WHERE
\* TABLE_NAME=?: the query has no ORDER BY, so the rows come in any order.
ColumnResults == SeqsUpTo(Columns(ListedTypes), MaxRows)

SelectColumns ==
  /\ pc = "selectColumns"
  /\ \/ /\ Select("Columns", "error")
        /\ callErr' = "query"
        /\ ReadTableFail("query")
        /\ UNCHANGED rows
     \/ \E r \in ColumnResults :
          /\ Select("Columns", "rows")
          /\ callErr' = Nil
          /\ rows' = r
          /\ DbClose
          /\ err' = Nil
          /\ pc' = "generateTypes"
          /\ UNCHANGED stderr
  /\ UNCHANGED <<flagTable, buffers, disk>>

----------------------------------------------------------------------------
\* generateTypes

GenerateTypes ==
  /\ pc = "generateTypes"
  /\ \E e \in {Nil, "template", "execute", "format"} :
       /\ callErr' = e
       /\ err' = e
       /\ parsed' = IF e = "template" THEN parsed ELSE parseResults(rows)
       /\ fmtBytes' = IF e = Nil THEN "generated" ELSE fmtBytes
       /\ IF e # Nil
          THEN /\ stderr' = Append(stderr, "While generating code")
               /\ pc' = "done"
          ELSE /\ pc' = "mkdir"
               /\ UNCHANGED stderr
  /\ UNCHANGED <<flagTable, conn, queries, rows, genFileBytes, formatted, disk>>

----------------------------------------------------------------------------
\* writeTypes

tLower == ToLower(flagTable)

filePath == PathJoin(tLower, GoFile(tLower))

\* writeTypes prints msg and returns e; Run prints its message and returns.
WriteTypesFail(e, msg) ==
  /\ err' = e
  /\ stderr' = stderr \o <<msg, "While writing generated code">>
  /\ pc' = "done"

MkdirAllOutcomes(name) == {Nil, "mkdir"}

OsMkdirAlways(name, e) == dirs' = dirs \cup {name}

\* os.Mkdir fails when the directory exists, and may fail otherwise.
MkdirOutcomes(name) == IF name \in dirs THEN {"mkdir"} ELSE {Nil, "mkdir"}

OsMkdir(name, e) == dirs' = IF e = Nil THEN dirs \cup {name} ELSE dirs

\* os.WriteFile opens with O_CREATE|O_TRUNC, writes and closes: it fails
\* before touching the file ("open") or after truncating it ("write").
WriteOutcomes(path) ==
  IF path[1] \in dirs THEN {Nil, "open", "write"} ELSE {"open"}

OsWriteFile(path, data, e) ==
  files' = CASE e = Nil -> [files EXCEPT ![path] = data]
             [] e = "write" -> [files EXCEPT ![path] = "partial"]
             [] OTHER -> files

Mkdir ==
  /\ pc = "mkdir"
  /\ \E e \in MkdirOutcomes(tLower) :
       /\ OsMkdir(tLower, e)
       /\ callErr' = e
       /\ IF e # Nil
          THEN WriteTypesFail(e, "While writing directory")
          ELSE /\ pc' = "writeFile"
               /\ UNCHANGED <<err, stderr>>
  /\ UNCHANGED <<flagTable, conn, queries, rows, buffers, files, dirs0, files0>>

WriteFile ==
  /\ pc = "writeFile"
  /\ \E e \in WriteOutcomes(filePath) :
       /\ OsWriteFile(filePath, fmtBytes, e)
       /\ callErr' = e
       /\ IF e # Nil
          THEN WriteTypesFail(e, "While writing generated code")
          ELSE /\ pc' = "readFile"
               /\ UNCHANGED <<err, stderr>>
  /\ UNCHANGED <<flagTable, conn, queries, rows, buffers, dirs, dirs0, files0>>

ReadFile ==
  /\ pc = "readFile"
  /\ \E e \in {Nil, "read"} :
       /\ callErr' = e
       /\ IF e # Nil
          THEN /\ WriteTypesFail(e, "While opening file for imports generation")
               /\ UNCHANGED genFileBytes
          ELSE /\ genFileBytes' = files[filePath]
               /\ pc' = "importsProcess"
               /\ UNCHANGED <<err, stderr>>
  /\ UNCHANGED <<flagTable, conn, queries, rows, parsed, fmtBytes, formatted, disk>>

ImportsProcess ==
  /\ pc = "importsProcess"
  /\ \E e \in {Nil, "imports"} :
       /\ callErr' = e
       /\ IF e # Nil
          THEN /\ WriteTypesFail(e, "While formatting imports")
               /\ UNCHANGED formatted
          ELSE /\ formatted' = "imports"
               /\ pc' = "rewriteFile"
               /\ UNCHANGED <<err, stderr>>
  /\ UNCHANGED <<flagTable, conn, queries, rows, parsed, fmtBytes, genFileBytes, disk>>

\* os.WriteFile(filePath, formatted, os.ModePerm): the result is not assigned,
\* so the test that follows reads the err of imports.Process.
RewriteFile ==
  /\ pc = "rewriteFile"
  /\ \E e \in WriteOutcomes(filePath) :
       /\ OsWriteFile(filePath, formatted, e)
       /\ callErr' = e
       /\ IF err # Nil
          THEN WriteTypesFail(err, "While writing formatted file")
          ELSE /\ pc' = "done"
               /\ UNCHANGED <<err, stderr>>
  /\ UNCHANGED <<flagTable, conn, queries, rows, buffers, dirs, dirs0, files0>>

----------------------------------------------------------------------------

Next ==
  \/ Connect
  \/ CheckDatabaseExists
  \/ CheckTableExists
  \/ SelectColumns
  \/ GenerateTypes
  \/ Mkdir
  \/ WriteFile
  \/ ReadFile
  \/ ImportsProcess
  \/ RewriteFile

Spec == Init /\ [][Next]_vars

----------------------------------------------------------------------------
\* parseResults alone, on every sequence of rows up to MaxRows.

InitParse ==
  /\ pc = "parseResults"
  /\ rows \in SeqsUpTo(Columns(DataTypes), MaxRows)
  /\ InitRun
  /\ dirs0 = {}
  /\ files0 = [p \in Paths |-> NoFile]
  /\ dirs = dirs0
  /\ files = files0

ParseResults ==
  /\ pc = "parseResults"
  /\ parsed' = parseResults(rows)
  /\ pc' = "parsed"
  /\ UNCHANGED <<flagTable, conn, queries, rows, err, callErr, stderr,
                 fmtBytes, genFileBytes, formatted, disk>>

NextParse == ParseResults

SpecParse == InitParse /\ [][NextParse]_vars

----------------------------------------------------------------------------
\* Vocabulary of the properties.

Range(f) == {f[i] : i \in DOMAIN f}

ReadTablePcs == {"checkDatabaseExists", "checkTableExists", "selectColumns"}

ReadErrors ==
  {"connect", "query", "databaseG does not exist", "table does not exist"}

\* tmpl.Execute has been called with parseResults(rows) in this run.
Executed ==
  /\ pc \in {"mkdir", "writeFile", "readFile", "importsProcess", "rewriteFile",
             "done"}
  /\ err \notin ReadErrors \cup {"template"}

\* writeTypes has been called and its os.Mkdir has returned.
MkdirReturned ==
  /\ fmtBytes = "generated"
  /\ pc \in {"writeFile", "readFile", "importsProcess", "rewriteFile", "done"}

DiskUntouched == dirs = dirs0 /\ files = files0

\* The output type the fixed table gives a DATA_TYPE, "" when it has none.
ExpectedType(d) ==
  CASE d \in {"varchar", "nvarchar", "char"} -> "string"
    [] d = "int" -> "int64"
    [] d = "float" -> "float64"
    [] d = "bit" -> "bool"
    [] d = "datetime" -> "time.Time"
    [] d = "binary" -> "[]byte"
    [] OTHER -> ""

\* The rows are those of one table: one TABLE_NAME, distinct ordinals.
OneTable(c) ==
  /\ \A i, j \in 1..Len(c) : c[i].TableName = c[j].TableName
  /\ \A i, j \in 1..Len(c) :
       i # j => c[i].OrdinalPosition # c[j].OrdinalPosition

OrdinalOfName(c, name) ==
  c[CHOOSE i \in 1..Len(c) : c[i].ColumnName = name].OrdinalPosition

----------------------------------------------------------------------------
\* C1: for every sequence of rows, parseResults yields one Attribute per row
\* whose Name is the row's column name and whose Type is the fixed table's
\* entry for the row's DataType when it is one of the eight mapped names and
\* empty for any other DataType; an unmapped DataType yields a result, never
\* a failure.
C1_TypeMapping ==
  pc = "parsed" =>
    /\ Len(parsed.Attributes) = Len(rows)
    /\ \A i \in 1..Len(rows) :
         /\ parsed.Attributes[i].Name = rows[i].ColumnName
         /\ parsed.Attributes[i].Type = ExpectedType(rows[i].DataType)
         /\ rows[i].DataType \notin MappedTypes => parsed.Attributes[i].Type = ""

C1_Witness ==
  /\ pc = "parsed"
  /\ Len(rows) = 2
  /\ rows[1].DataType = "binary"
  /\ rows[2].DataType = "xml"
  /\ parsed.Attributes[1].Type = "[]byte"
  /\ parsed.Attributes[2] = [Name |-> rows[2].ColumnName, Type |-> ""]

\* C2: whatever order the column query returns the rows of one table in, the
\* attributes handed to the template are in strictly increasing ordinal
\* position.
C2_AttributesAscending ==
  (Executed /\ OneTable(rows)) =>
    \A i, j \in 1..Len(parsed.Attributes) :
      i < j => OrdinalOfName(rows, parsed.Attributes[i].Name)
                 < OrdinalOfName(rows, parsed.Attributes[j].Name)

\* C3: when the database-exists probe answers false, readTable fails with the
\* database-not-found error, no further query is issued, nothing is rendered
\* and no directory or file is written.
C3_DatabaseMissing ==
  (Len(queries) >= 1 /\ queries[1].result = "0") =>
    /\ pc = "done"
    /\ err = "databaseG does not exist"
    /\ Len(queries) = 1
    /\ "While parsing database table" \in Range(stderr)
    /\ rows = <<>>
    /\ parsed = EmptyParsed
    /\ fmtBytes = NoFile
    /\ DiskUntouched

C3_Witness ==
  /\ pc = "done"
  /\ Len(queries) = 1
  /\ queries[1] = [query |-> "DatabaseExists", conn |-> "open", result |-> "0"]
  /\ err = "databaseG does not exist"

\* C4: when the database exists and the table-exists probe answers false,
\* readTable fails with the table-not-found error and issues no column query.
C4_TableMissing ==
  (Len(queries) >= 2 /\ queries[1].result = "1" /\ queries[2].result = "0") =>
    /\ pc = "done"
    /\ err = "table does not exist"
    /\ Len(queries) = 2
    /\ \A i \in 1..Len(queries) : queries[i].query # "Columns"
    /\ rows = <<>>

C4_Witness ==
  /\ pc = "done"
  /\ Len(queries) = 2
  /\ queries[1].result = "1"
  /\ queries[2] = [query |-> "TableExists", conn |-> "open", result |-> "0"]
  /\ err = "table does not exist"

\* C5: when the directory named as the lower-cased table name exists before
\* the run, writeTypes fails at os.Mkdir with the directory error, writes no
\* file, and the directory and its contents are as they were.
C5_ExistingDirectoryUntouched ==
  (MkdirReturned /\ ToLower(flagTable) \in dirs0) =>
    /\ pc = "done"
    /\ err = "mkdir"
    /\ callErr = "mkdir"
    /\ "While writing directory" \in Range(stderr)
    /\ DiskUntouched

C5_Witness ==
  /\ MkdirReturned
  /\ flagTable = <<"U", "s">>
  /\ <<"u", "s">> \in dirs0
  /\ files0[<<<<"u", "s">>, <<"u", "s", ".", "g", "o">>>>] = "old"
  /\ files[<<<<"u", "s">>, <<"u", "s", ".", "g", "o">>>>] = "old"
  /\ err = "mkdir"

\* C6: once the connection was opened, every return path of readTable closes
\* it: it is open only while readTable runs, every query is issued on the
\* open connection, and after readTable has returned it is closed.
C6_ConnectionClosed ==
  /\ conn = "open" => pc \in ReadTablePcs
  /\ conn = "none" => queries = <<>>
  /\ \A i \in 1..Len(queries) : queries[i].conn = "open"
  /\ (pc \notin ReadTablePcs \cup {"connect"} /\ err # "connect")
       => conn = "closed"

C6_Witness ==
  /\ pc = "done"
  /\ conn = "closed"
  /\ err = "query"
  /\ Len(queries) = 3
  /\ queries[3].result = "error"

\* C7 as stated: the import-normalization failure is the only error after
\* which a directory or file of the run remains on disk.
C7_OnlyImportsErrorLeavesOutput ==
  (pc = "done" /\ err \notin {Nil, "imports"}) => DiskUntouched

\* C7 as amended: an error raised before the directory is created
\* (connection, database or table not found, query, template, format,
\* os.Mkdir) ends the run with the disk as it was; a failure of the first
\* file write leaves the new directory, holding no file or a truncated one;
\* a re-read failure and an import-normalization failure both leave the
\* directory and the written file; a run that reports no error leaves the
\* directory and the file, import-normalized when the final rewrite
\* succeeded and as first written or truncated when it failed.
C7_OutputRetained ==
  pc = "done" =>
    /\ err \in ReadErrors \cup {"template", "execute", "format", "mkdir"}
         => DiskUntouched
    /\ err \notin ReadErrors \cup {"template", "execute", "format", "mkdir"}
         => /\ tLower \notin dirs0
            /\ dirs = dirs0 \cup {tLower}
            /\ \A p \in Paths \ {filePath} : files[p] = files0[p]
    /\ err \in {"open", "write"} => files[filePath] \in {NoFile, "partial"}
    /\ err \in {"read", "imports"} => files[filePath] = "generated"
    /\ err = Nil =>
         files[filePath] = CASE callErr = Nil -> "imports"
                             [] callErr = "open" -> "generated"
                             [] OTHER -> "partial"

C7_Witness ==
  /\ pc = "done"
  /\ err = "write"
  /\ tLower \notin dirs0
  /\ tLower \in dirs
  /\ files[filePath] = "partial"

\* C8: whenever a step of the pipeline fails, the final rewrite of the file
\* included, Run gets a non-nil error and reports it; writeTypes returns nil
\* only if the final rewrite succeeded too.
C8_EveryErrorSurfaced ==
  pc = "done" =>
    /\ callErr # Nil => (err # Nil /\ stderr # <<>>)
    /\ (fmtBytes = "generated" /\ err = Nil) => files[filePath] = "imports"

\* C9: the queries of a run are the database probe, the table probe and the
\* column listing, in that order and each at most once; a query is issued
\* only after every earlier one answered true without error, and a query
\* that failed or answered false is the last one and ends the call.
C9_QueryOrder ==
  /\ Len(queries) <= 3
  /\ \A i \in 1..Len(queries) :
       /\ queries[i].query = <<"DatabaseExists", "TableExists", "Columns">>[i]
       /\ i < Len(queries) => queries[i].result = "1"
       /\ queries[i].result \in {"error", "0"} =>
            /\ pc = "done"
            /\ err = IF queries[i].result = "error" THEN "query"
                     ELSE IF i = 1 THEN "databaseG does not exist"
                     ELSE "table does not exist"
  /\ Len(queries) = 3 => pc \notin ReadTablePcs
  /\ pc = "checkTableExists" => Len(queries) = 1
  /\ pc = "selectColumns" => Len(queries) = 2

C9_Witness ==
  /\ pc = "done"
  /\ Len(queries) = 3
  /\ queries[1].result = "1"
  /\ queries[2].result = "1"
  /\ queries[3].result = "rows"
  /\ err = Nil

\* C10: the data handed to the template has the table name of the last row
\* and one attribute per row; when the column listing succeeds with no rows
\* the data has an empty table name and no attributes, and Run goes on to
\* generateTypes instead of failing in the reader.
C10_LastRowTableName ==
  /\ Executed =>
       /\ Len(parsed.Attributes) = Len(rows)
       /\ rows # <<>> => parsed.TableName = rows[Len(rows)].TableName
       /\ rows = <<>> => parsed = [TableName |-> <<>>, Attributes |-> <<>>]
  /\ (Len(queries) = 3 /\ queries[3].result = "rows" /\ rows = <<>>) =>
       /\ err \notin ReadErrors
       /\ "While parsing database table" \notin Range(stderr)
       /\ pc \in {"generateTypes", "mkdir", "writeFile", "readFile",
                  "importsProcess", "rewriteFile", "done"}

C10_Witness ==
  /\ Executed
  /\ Len(rows) = 2
  /\ rows[1].TableName = <<"u", "s">>
  /\ rows[2].TableName = <<"U", "s">>
  /\ parsed.TableName = <<"U", "s">>
  /\ Len(parsed.Attributes) = 2

\* The empty column listing of C10 is reached and rendered.
C10_EmptyListingRendered ==
  /\ Executed
  /\ Len(queries) = 3
  /\ rows = <<>>
  /\ parsed.TableName = <<>>
  /\ fmtBytes = "generated"

====
